---- MODULE Spec2Model ----
(***************************************************************************)
(* Provider side of the data-platform relation libraries:                  *)
(* BaseResourceProvides (_diff, _update_relation_data, the set_* helpers,  *)
(* fetch_relation_data) and the three flavours built on it                 *)
(* (DatabaseProvides, KafkaProvides, ZookeeperProvides).                   *)
(*                                                                         *)
(* A databag is a function from a finite set of string keys to values.     *)
(* The value stored under "data" in the local application databag is JSON  *)
(* text; JSON text is modelled as a record [wf, items] where items is the  *)
(* sequence of <<key, value>> members of the object in the order           *)
(* json.dumps writes them, and wf = FALSE stands for text json.loads       *)
(* rejects.                                                                *)
(*                                                                         *)
(* The model is of the methods as they are written, run on an instance of  *)
(* each provider class. (As written, the class statements of the three     *)
(* providers list BaseResourceProvides before its own subclass             *)
(* TlsEnabledRelation, which Python rejects when it builds the class; the  *)
(* model does not go into class construction.)                             *)
(***************************************************************************)
EXTENDS Integers, Sequences, FiniteSets, TLC

VARIABLES
    leader,       \* self.local_unit.is_leader()
    flavor,       \* which provider class the charm instantiated
    relations,    \* ids of the relations of self.relation_name
    remote_data,  \* relation.data[event.app], per relation id
    local_data,   \* relation.data[self.local_app], per relation id
    notif,        \* per relation: what the last relation-changed hook did
    last,         \* the last operation run: its name, relation and outcome
    steps,        \* number of operations run (bounded runs only)
    race          \* hook runs in progress in two execution contexts

vars == <<leader, flavor, relations, remote_data, local_data, notif, last, steps, race>>

----------------------------------------------------------------------------
(* Bounds and vocabularies *)

MaxSteps == 3

\* How often the requirer may set a trigger key that was absent.
MaxAppear == 2

\* The execution contexts that may run the hook of one relation.
Contexts == {"a", "b"}

Values == {"X", "Y"}

Flavors == {"database", "kafka", "zookeeper"}

NoneVal == "None"

\* The relation ids a caller may pass: those of the relations and one (0)
\* that names no relation.
RelationIds == 0..2

RemoteApp == "application"

RemoteUnit == "application/0"

\* The key whose first appearance makes a flavour emit its event.
TriggerKey(f) ==
    CASE f = "database"  -> "database"
      [] f = "kafka"     -> "topic"
      [] f = "zookeeper" -> "chroot"

\* The event each flavour declares in its CharmEvents class.
EventKind(f) ==
    CASE f = "database"  -> "database_requested"
      [] f = "kafka"     -> "topic_created"
      [] f = "zookeeper" -> "znode_created"

\* Keys the requirer writes in its application databag.
RemoteKeys(f) == {TriggerKey(f), "extra-user-roles", "data"}

\* Order in which an object's members are written by json.dumps.
KeyOrder == <<"chroot", "data", "database", "extra-user-roles", "topic">>

----------------------------------------------------------------------------
(* Databags and JSON *)

EmptyBag == [k \in {} |-> "X"]

\* dict.get(key, default)
Get(bag, key, default) == IF key \in DOMAIN bag THEN bag[key] ELSE default

\* dict.update(data)
update(bag, data) ==
    [k \in DOMAIN bag \cup DOMAIN data |->
        IF k \in DOMAIN data THEN data[k] ELSE bag[k]]

\* del dict[key]
Remove(bag, key) == [k \in DOMAIN bag \ {key} |-> bag[k]]

\* The literal "{}" used as the default of .get("data", "{}").
EmptyObject == [wf |-> TRUE, items |-> <<>>]

\* Text that is not JSON.
Garbage == [wf |-> FALSE, items |-> <<>>]

\* json.dumps of a str -> str mapping.
dumps(m) ==
    LET ks == SelectSeq(KeyOrder, LAMBDA k : k \in DOMAIN m)
    IN  [wf |-> TRUE, items |-> [i \in 1..Len(ks) |-> <<ks[i], m[ks[i]]>>]]

\* json.loads of well-formed text: the last member with a given name wins.
loads(s) ==
    LET it == s.items
        ks == {it[i][1] : i \in DOMAIN it}
        LastIdx(k) == CHOOSE i \in DOMAIN it :
                          /\ it[i][1] = k
                          /\ \A j \in DOMAIN it : it[j][1] = k => j <= i
    IN  [k \in ks |-> it[LastIdx(k)][2]]

----------------------------------------------------------------------------
(* BaseResourceProvides._diff *)

Diff(added, changed, deleted) ==
    [added |-> added, changed |-> changed, deleted |-> deleted]

NoDiff == Diff({}, {}, {})

old_data(c) == loads(Get(local_data[c], "data", EmptyObject))

\* The comprehension of lines 69-71 keeping the reserved key.
items_unfiltered(bag) == bag

\* {key: value for (key, value) in bag.items() if key != "data"}
items(bag) == [key \in DOMAIN bag \ {"data"} |-> bag[key]]

\* new_data without the filter on the reserved key.
new_data_unfiltered(c) == remote_data[c]

new_data(c) == items(remote_data[c])

\* added without the subtraction of the old keys.
added_all_new(old, new) == DOMAIN new

added(old, new) == DOMAIN new \ DOMAIN old

\* deleted left empty.
deleted_none(old, new) == {}

deleted(old, new) == DOMAIN old \ DOMAIN new

\* changed without the comparison of the values.
changed_all_common(old, new) == DOMAIN old \cap DOMAIN new

changed(old, new) == {key \in DOMAIN old \cap DOMAIN new : old[key] # new[key]}

\* _diff indexing a databag even when the event names no application.
_diff_raises_json_only(c, app) ==
    ~Get(local_data[c], "data", EmptyObject).wf

\* json.loads rejects the stored text, or event.app indexes no databag.
_diff_raises(c, app) ==
    \/ ~Get(local_data[c], "data", EmptyObject).wf
    \/ app = NoneVal

_diff_exception(c, app) ==
    IF ~Get(local_data[c], "data", EmptyObject).wf
    THEN "JSONDecodeError"
    ELSE "KeyError"

\* The value _diff returns.
_diff(c) ==
    Diff(added(old_data(c), new_data(c)),
         changed(old_data(c), new_data(c)),
         deleted(old_data(c), new_data(c)))

\* _diff writing the new snapshot into the databag of every relation.
_diff_save_all(c) ==
    local_data' = [d \in relations |->
                      update(local_data[d], [data |-> dumps(new_data(c))])]

\* _diff without the write of the new snapshot.
_diff_save_skipped(c) == UNCHANGED local_data

\* The databag write _diff makes before it returns.
_diff_save(c) ==
    local_data' = [local_data EXCEPT ![c] = update(@, [data |-> dumps(new_data(c))])]

----------------------------------------------------------------------------
(* Events *)

Event(kind, c, app, unit) ==
    [kind |-> kind, relation |-> c, app |-> app, unit |-> unit]

\* DatabaseEvent.database answering from the view the hook run had.
database_at_emission(ev) == Get(notif[ev.relation].view, "database", NoneVal)

\* DatabaseEvent.database, KafkaEvent.topic, ZookeeperEvent.chroot
database(ev) == Get(remote_data[ev.relation], "database", NoneVal)

topic(ev) == Get(remote_data[ev.relation], "topic", NoneVal)

chroot(ev) == Get(remote_data[ev.relation], "chroot", NoneVal)

\* BaseResourceAccessEvent.extra_user_roles
extra_user_roles(ev) == Get(remote_data[ev.relation], "extra-user-roles", NoneVal)

\* What a relation-changed hook did: how it ended ("dropped" by the leader
\* gate, "ok", or the exception it raised), the databag content _diff read,
\* the Diff it returned and the events it emitted.
Run(out, view, d, emitted) ==
    [outcome |-> out, view |-> view, diff |-> d, emitted |-> emitted]

NoRun == Run("none", EmptyBag, NoDiff, <<>>)

\* The record kept per relation: the last hook run, whether the operation
\* right before it was a hook of the same relation that ran _diff to its end
\* (rerun), and the keys the hook run before it reported as added.
Notif(run, rerun, prev_added) ==
    [outcome |-> run.outcome, view |-> run.view, diff |-> run.diff,
     emitted |-> run.emitted, rerun |-> rerun, prev_added |-> prev_added]

\* The outcomes of a hook in which _diff returned.
Completed == {"ok", "AttributeError"}

Last(op, c, out) == [op |-> op, relation |-> c, outcome |-> out, value |-> <<>>]

----------------------------------------------------------------------------
(* The relation-changed hooks *)

\* The leadership test answering yes on every unit.
is_leader_always == TRUE

\* The leadership test reading a value remembered from before the last
\* leadership change.
is_leader_cached == IF last.op = "leader" THEN ~leader ELSE leader

\* self.local_unit.is_leader(): asks Juju at every call.
is_leader == leader

\* on_relation_changed emitting also when the trigger key changed its value.
on_relation_changed_on_changed(c, app, unit, trigger, emit) ==
    LET rerun ==
            /\ last.op = "relation_changed"
            /\ last.relation = c
            /\ last.outcome \in Completed
        result ==
            IF ~is_leader THEN Run("dropped", EmptyBag, NoDiff, <<>>)
            ELSE IF _diff_raises(c, app)
            THEN Run(_diff_exception(c, app), EmptyBag, NoDiff, <<>>)
            ELSE IF trigger \in _diff(c).added \cup _diff(c).changed
            THEN Run(emit[1], new_data(c), _diff(c), emit[2])
            ELSE Run("ok", new_data(c), _diff(c), <<>>)
    IN  /\ c \in relations
        /\ IF is_leader /\ ~_diff_raises(c, app)
           THEN _diff_save(c)
           ELSE UNCHANGED local_data
        /\ notif' = [notif EXCEPT ![c] = Notif(result, rerun, notif[c].diff.added)]
        /\ last' = Last("relation_changed", c, result.outcome)
        /\ UNCHANGED <<leader, flavor, relations, remote_data>>

\* _on_relation_changed storing the snapshot only after the emit went
\* through.
on_relation_changed_save_after_emit(c, app, unit, trigger, emit) ==
    LET rerun ==
            /\ last.op = "relation_changed"
            /\ last.relation = c
            /\ last.outcome \in Completed
        result ==
            IF ~is_leader THEN Run("dropped", EmptyBag, NoDiff, <<>>)
            ELSE IF _diff_raises(c, app)
            THEN Run(_diff_exception(c, app), EmptyBag, NoDiff, <<>>)
            ELSE IF trigger \in _diff(c).added
            THEN Run(emit[1], new_data(c), _diff(c), emit[2])
            ELSE Run("ok", new_data(c), _diff(c), <<>>)
    IN  /\ c \in relations
        /\ IF result.outcome = "ok"
           THEN _diff_save(c)
           ELSE UNCHANGED local_data
        /\ notif' = [notif EXCEPT ![c] = Notif(result, rerun, notif[c].diff.added)]
        /\ last' = Last("relation_changed", c, result.outcome)
        /\ UNCHANGED <<leader, flavor, relations, remote_data>>

\* The part of _on_relation_changed all three flavours share: the leader
\* gate and the call of _diff. emit is what the flavour does when its
\* trigger key is in diff.added: <<"ok", events>>, or <<exception, <<>>>>.
on_relation_changed(c, app, unit, trigger, emit) ==
    LET rerun ==
            /\ last.op = "relation_changed"
            /\ last.relation = c
            /\ last.outcome \in Completed
        result ==
            IF ~is_leader THEN Run("dropped", EmptyBag, NoDiff, <<>>)
            ELSE IF _diff_raises(c, app)
            THEN Run(_diff_exception(c, app), EmptyBag, NoDiff, <<>>)
            ELSE IF trigger \in _diff(c).added
            THEN Run(emit[1], new_data(c), _diff(c), emit[2])
            ELSE Run("ok", new_data(c), _diff(c), <<>>)
    IN  /\ c \in relations
        /\ IF is_leader /\ ~_diff_raises(c, app)
           THEN _diff_save(c)
           ELSE UNCHANGED local_data
        /\ notif' = [notif EXCEPT ![c] = Notif(result, rerun, notif[c].diff.added)]
        /\ last' = Last("relation_changed", c, result.outcome)
        /\ UNCHANGED <<leader, flavor, relations, remote_data>>

\* DatabaseProvides._on_relation_changed without the emit.
DatabaseProvides_on_relation_changed_no_emit(c, app, unit) ==
    /\ flavor = "database"
    /\ on_relation_changed(c, app, unit, "database", <<"ok", <<>>>>)

\* DatabaseProvides._on_relation_changed testing the wrong key.
DatabaseProvides_on_relation_changed_wrong_key(c, app, unit) ==
    /\ flavor = "database"
    /\ on_relation_changed(c, app, unit, "extra-user-roles",
           <<"ok", <<Event("database_requested", c, app, unit)>>>>)

\* self.on.database_requested.emit(event.relation, app=event.app, unit=event.unit)
DatabaseProvides_on_relation_changed(c, app, unit) ==
    /\ flavor = "database"
    /\ on_relation_changed(c, app, unit, "database",
           <<"ok", <<Event("database_requested", c, app, unit)>>>>)

\* self.topic_created is no attribute of KafkaProvides: AttributeError.
KafkaProvides_on_relation_changed(c, app, unit) ==
    /\ flavor = "kafka"
    /\ on_relation_changed(c, app, unit, "topic", <<"AttributeError", <<>>>>)

\* self.topic_created is no attribute of ZookeeperProvides: AttributeError.
ZookeeperProvides_on_relation_changed(c, app, unit) ==
    /\ flavor = "zookeeper"
    /\ on_relation_changed(c, app, unit, "chroot", <<"AttributeError", <<>>>>)

\* The relation-changed hook of relation c, whatever the flavour and the
\* remote application and unit the event names.
HookFrom(c, app, unit) ==
    \/ DatabaseProvides_on_relation_changed(c, app, unit)
    \/ KafkaProvides_on_relation_changed(c, app, unit)
    \/ ZookeeperProvides_on_relation_changed(c, app, unit)

Hook(c) ==
    \E app \in {RemoteApp, NoneVal}, unit \in {RemoteUnit, NoneVal} :
        HookFrom(c, app, unit)

RelationChanged == \E c \in relations : Hook(c)

----------------------------------------------------------------------------
(* The guarded write and the set_* helpers *)

\* _update_relation_data without the leader check.
_update_relation_data_unguarded(relation_id, data) ==
    /\ relation_id \in relations
    /\ local_data' = [local_data EXCEPT ![relation_id] = update(@, data)]
    /\ UNCHANGED <<leader, flavor, relations, remote_data, notif>>

\* _update_relation_data assigning the databag instead of updating it.
_update_relation_data_replace(relation_id, data) ==
    /\ relation_id \in relations
    /\ IF is_leader
       THEN local_data' = [local_data EXCEPT ![relation_id] = data]
       ELSE UNCHANGED local_data
    /\ UNCHANGED <<leader, flavor, relations, remote_data, notif>>

\* _update_relation_data writing an empty snapshot along with the fields.
_update_relation_data_reset(relation_id, data) ==
    /\ IF is_leader /\ relation_id \in relations
       THEN local_data' = [local_data EXCEPT ![relation_id] =
                              update(update(@, data), [data |-> EmptyObject])]
       ELSE UNCHANGED local_data
    /\ UNCHANGED <<leader, flavor, relations, remote_data, notif>>

\* _update_relation_data returning silently on the leader when the id names
\* no relation.
_update_relation_data_outcome_silent(relation_id) == "return"

\* How a call of _update_relation_data ends. On a non-leader the body is
\* skipped. On the leader an id that names no relation fails: get_relation
\* hands back a Relation object for the id and the write of its databag is
\* refused by Juju (ops raises RelationNotFoundError, a ModelError).
_update_relation_data_outcome(relation_id) ==
    IF is_leader /\ relation_id \notin relations THEN "ModelError" ELSE "return"

\* BaseResourceProvides._update_relation_data
_update_relation_data(relation_id, data) ==
    /\ IF is_leader /\ relation_id \in relations
       THEN local_data' = [local_data EXCEPT ![relation_id] = update(@, data)]
       ELSE UNCHANGED local_data
    /\ UNCHANGED <<leader, flavor, relations, remote_data, notif>>

set_version(relation_id, version) ==
    /\ last' = Last("set_version", relation_id, _update_relation_data_outcome(relation_id))
    /\ _update_relation_data(relation_id, [k \in {"version"} |-> version])

set_credentials(relation_id, username, password) ==
    /\ last' = Last("set_credentials", relation_id, _update_relation_data_outcome(relation_id))
    /\ _update_relation_data(relation_id,
        [k \in {"username", "password"} |->
            IF k = "username" THEN username ELSE password])

set_tls(relation_id, tls) ==
    /\ last' = Last("set_tls", relation_id, _update_relation_data_outcome(relation_id))
    /\ _update_relation_data(relation_id, [k \in {"tls"} |-> tls])

set_tls_ca(relation_id, tls_ca) ==
    /\ last' = Last("set_tls_ca", relation_id, _update_relation_data_outcome(relation_id))
    /\ _update_relation_data(relation_id, [k \in {"tls_ca"} |-> tls_ca])

\* The four helpers only DatabaseProvides defines.
set_endpoints(relation_id, connection_strings) ==
    /\ flavor = "database"
    /\ last' = Last("set_endpoints", relation_id, _update_relation_data_outcome(relation_id))
    /\ _update_relation_data(relation_id, [k \in {"endpoints"} |-> connection_strings])

set_read_only_endpoints(relation_id, connection_strings) ==
    /\ flavor = "database"
    /\ last' = Last("set_read_only_endpoints", relation_id, _update_relation_data_outcome(relation_id))
    /\ _update_relation_data(relation_id,
           [k \in {"read-only-endpoints"} |-> connection_strings])

set_replset(relation_id, replset) ==
    /\ flavor = "database"
    /\ last' = Last("set_replset", relation_id, _update_relation_data_outcome(relation_id))
    /\ _update_relation_data(relation_id, [k \in {"replset"} |-> replset])

set_uris(relation_id, uris) ==
    /\ flavor = "database"
    /\ last' = Last("set_uris", relation_id, _update_relation_data_outcome(relation_id))
    /\ _update_relation_data(relation_id, [k \in {"uris"} |-> uris])

SetVersion == \E c \in RelationIds, v \in Values : set_version(c, v)

SetCredentials == \E c \in RelationIds, u \in Values, p \in Values : set_credentials(c, u, p)

SetTls == \E c \in RelationIds, v \in Values : set_tls(c, v)

SetTlsCa == \E c \in RelationIds, v \in Values : set_tls_ca(c, v)

SetEndpoints == \E c \in RelationIds, v \in Values : set_endpoints(c, v)

SetReadOnlyEndpoints == \E c \in RelationIds, v \in Values : set_read_only_endpoints(c, v)

SetReplset == \E c \in RelationIds, v \in Values : set_replset(c, v)

SetUris == \E c \in RelationIds, v \in Values : set_uris(c, v)

\* fetch_relation_data returning the whole databag of every relation.
fetch_relation_data_unfiltered ==
    /\ last' = [Last("fetch_relation_data", 0, "return") EXCEPT
                    !.value = [c \in relations |-> remote_data[c]]]
    /\ UNCHANGED <<leader, flavor, relations, remote_data, local_data, notif>>

\* BaseResourceProvides.fetch_relation_data: the value returned is kept in
\* last.value.
fetch_relation_data ==
    LET data == [c \in relations |->
                    [key \in {k \in DOMAIN remote_data[c] : k # "data"} |->
                        remote_data[c][key]]]
    IN  /\ last' = [Last("fetch_relation_data", 0, "return") EXCEPT !.value = data]
        /\ UNCHANGED <<leader, flavor, relations, remote_data, local_data, notif>>

\* Any call of a set_* helper.
Accessor ==
    \/ SetVersion
    \/ SetCredentials
    \/ SetTls
    \/ SetTlsCa
    \/ SetEndpoints
    \/ SetReadOnlyEndpoints
    \/ SetReplset
    \/ SetUris

----------------------------------------------------------------------------
(* The environment: the requirer's writes and leader election *)

PeerSet ==
    \E c \in relations, key \in RemoteKeys(flavor), value \in Values :
        /\ remote_data' = [remote_data EXCEPT ![c] = update(@, [k \in {key} |-> value])]
        /\ last' = Last("peer", c, "return")
        /\ UNCHANGED <<leader, flavor, relations, local_data, notif>>

PeerDelete ==
    \E c \in relations :
        \E key \in DOMAIN remote_data[c] :
            /\ remote_data' = [remote_data EXCEPT ![c] = Remove(@, key)]
            /\ last' = Last("peer", c, "return")
            /\ UNCHANGED <<leader, flavor, relations, local_data, notif>>

\* A write of the reserved key in the local application databag from
\* outside the library, as the unit test does to reset the snapshot
\* (update_relation_data(rel_id, "database", {"data": "{}"})); the text
\* written is "{}" or text that is not JSON.
DataWrite ==
    \E c \in relations, text \in {EmptyObject, Garbage} :
        /\ local_data' = [local_data EXCEPT ![c] = update(@, [data |-> text])]
        /\ last' = Last("data_write", c, "return")
        /\ UNCHANGED <<leader, flavor, relations, remote_data, notif>>

\* _diff called with an event whose app is the local application, as
\* test_diff does: the databag read at lines 69-71 is the one that holds
\* the snapshot.
OwnDiff ==
    \E c \in relations :
        LET old == old_data(c)
            new == items(local_data[c])
            d == Diff(added(old, new), changed(old, new), deleted(old, new))
        IN  /\ Get(local_data[c], "data", EmptyObject).wf
            /\ local_data' = [local_data EXCEPT ![c] = update(@, [data |-> dumps(new)])]
            /\ notif' = [notif EXCEPT ![c] = Notif(Run("ok", new, d, <<>>), FALSE, {})]
            /\ last' = Last("_diff", c, "ok")
            /\ UNCHANGED <<leader, flavor, relations, remote_data>>

\* data[key] = value on that databag, for a key other than the reserved one.
OwnSet ==
    \E c \in relations, key \in RemoteKeys(flavor) \ {"data"}, value \in Values :
        /\ local_data' = [local_data EXCEPT ![c] = update(@, [k \in {key} |-> value])]
        /\ last' = Last("own", c, "return")
        /\ UNCHANGED <<leader, flavor, relations, remote_data, notif>>

\* del data[key] on that databag, for a key other than the reserved one.
OwnDelete ==
    \E c \in relations :
        \E key \in DOMAIN local_data[c] \ {"data"} :
            /\ local_data' = [local_data EXCEPT ![c] = Remove(@, key)]
            /\ last' = Last("own", c, "return")
            /\ UNCHANGED <<leader, flavor, relations, remote_data, notif>>

LeaderChange ==
    /\ leader' = ~leader
    /\ last' = Last("leader", 0, "return")
    /\ UNCHANGED <<flavor, relations, remote_data, local_data, notif>>

----------------------------------------------------------------------------
(* Specifications *)

\* No hook run in progress. serialized says whether the runs of a relation
\* are kept from overlapping, as Juju does for the hooks of one unit.
NoRace(serialized) ==
    [serialized |-> serialized,
     pc |-> [p \in Contexts |-> "idle"],
     old |-> [p \in Contexts |-> EmptyBag],
     new |-> [p \in Contexts |-> EmptyBag],
     diff |-> [p \in Contexts |-> NoDiff],
     overlap |-> FALSE,
     appeared |-> 0,
     events |-> 0]

InitBase(rels) ==
    /\ leader \in BOOLEAN
    /\ flavor \in Flavors
    /\ relations = rels
    /\ remote_data = [c \in rels |-> EmptyBag]
    /\ local_data = [c \in rels |-> EmptyBag]
    /\ notif = [c \in rels |-> Notif(NoRun, FALSE, {})]
    /\ last = Last("none", 0, "return")
    /\ steps = 0

InitWith(rels) ==
    /\ InitBase(rels)
    /\ race = NoRace(TRUE)

\* One relation; the hooks, the requirer and leader election.
Init == InitWith({1})

Next ==
    /\ \/ RelationChanged
       \/ PeerSet
       \/ PeerDelete
       \/ LeaderChange
    /\ UNCHANGED <<steps, race>>

Spec == Init /\ [][Next]_vars

\* Two relations; every operation, in runs of at most MaxSteps operations.
InitWrite == InitWith({1, 2})

NextWrite ==
    /\ steps < MaxSteps
    /\ steps' = steps + 1
    /\ UNCHANGED race
    /\ \/ SetVersion
       \/ SetCredentials
       \/ SetTls
       \/ SetTlsCa
       \/ SetEndpoints
       \/ SetReadOnlyEndpoints
       \/ SetReplset
       \/ SetUris
       \/ fetch_relation_data
       \/ RelationChanged
       \/ PeerSet
       \/ PeerDelete
       \/ LeaderChange

SpecWrite == InitWrite /\ [][NextWrite]_vars

\* One relation; the operations of Spec and writes of the reserved key from
\* outside the library.
NextReset ==
    /\ \/ RelationChanged
       \/ PeerSet
       \/ PeerDelete
       \/ LeaderChange
       \/ DataWrite
    /\ UNCHANGED <<steps, race>>

SpecReset == Init /\ [][NextReset]_vars

\* One relation; the hooks and the requirer, and _diff run on the local
\* databag itself.
NextOwn ==
    /\ \/ RelationChanged
       \/ PeerSet
       \/ PeerDelete
       \/ OwnDiff
       \/ OwnSet
       \/ OwnDelete
    /\ UNCHANGED <<steps, race>>

SpecOwn == Init /\ [][NextOwn]_vars

----------------------------------------------------------------------------
(* The hook run statement by statement, in two execution contexts *)

\* if not self.local_unit.is_leader(): return, then line 67 of _diff: the
\* stored snapshot is read into the local old_data. When runs are serialized
\* a context starts only while no other run is in progress.
RaceLoad(p, c) ==
    /\ is_leader
    /\ race.pc[p] = "idle"
    /\ race.serialized => \A q \in Contexts : race.pc[q] = "idle"
    /\ race' = [race EXCEPT
                   !.pc[p] = "loaded",
                   !.old[p] = old_data(c),
                   !.overlap = @ \/ \E q \in Contexts \ {p} :
                                        race.pc[q] \in {"loaded", "read"}]
    /\ UNCHANGED <<leader, flavor, relations, remote_data, local_data, notif, last, steps>>

\* Lines 69-71 of _diff: the requirer's databag is read into new_data.
RaceRead(p, c) ==
    /\ race.pc[p] = "loaded"
    /\ race' = [race EXCEPT !.pc[p] = "read", !.new[p] = new_data(c)]
    /\ UNCHANGED <<leader, flavor, relations, remote_data, local_data, notif, last, steps>>

\* The run going on without the write of line 86.
RaceSave_skipped(p, c) ==
    /\ race.pc[p] = "read"
    /\ race' = [race EXCEPT
                   !.pc[p] = "saved",
                   !.diff[p] = Diff(added(race.old[p], race.new[p]),
                                    changed(race.old[p], race.new[p]),
                                    deleted(race.old[p], race.new[p]))]
    /\ UNCHANGED <<leader, flavor, relations, remote_data, local_data, notif, last, steps>>

\* Lines 74-89 of _diff: the keys are classified from the two locals, the
\* local new_data is stored under "data" and the Diff is returned.
RaceSave(p, c) ==
    /\ race.pc[p] = "read"
    /\ local_data' = [local_data EXCEPT ![c] = update(@, [data |-> dumps(race.new[p])])]
    /\ race' = [race EXCEPT
                   !.pc[p] = "saved",
                   !.diff[p] = Diff(added(race.old[p], race.new[p]),
                                    changed(race.old[p], race.new[p]),
                                    deleted(race.old[p], race.new[p]))]
    /\ UNCHANGED <<leader, flavor, relations, remote_data, notif, last, steps>>

\* The end of _on_relation_changed: the emit when the trigger key is in
\* diff.added. Only DatabaseProvides raises an event; the other two
\* handlers end in AttributeError there.
RaceEmit(p, c) ==
    /\ race.pc[p] = "saved"
    /\ race' = [race EXCEPT
                   !.pc[p] = "idle",
                   !.old[p] = EmptyBag,
                   !.new[p] = EmptyBag,
                   !.diff[p] = NoDiff,
                   !.events = IF /\ TriggerKey(flavor) \in race.diff[p].added
                                 /\ flavor = "database"
                              THEN @ + 1
                              ELSE @]
    /\ UNCHANGED <<leader, flavor, relations, remote_data, local_data, notif, last, steps>>

\* The requirer sets the trigger key; race.appeared counts the times the
\* key was absent before.
RacePeerSet ==
    \E c \in relations, value \in Values :
        LET key == TriggerKey(flavor)
        IN  /\ key \notin DOMAIN remote_data[c] => race.appeared < MaxAppear
            /\ remote_data' = [remote_data EXCEPT ![c] = update(@, [k \in {key} |-> value])]
            /\ race' = [race EXCEPT !.appeared =
                           IF key \in DOMAIN remote_data[c] THEN @ ELSE @ + 1]
            /\ UNCHANGED <<leader, flavor, relations, local_data, notif, last, steps>>

\* The requirer removes the trigger key.
RacePeerDelete ==
    \E c \in relations :
        /\ TriggerKey(flavor) \in DOMAIN remote_data[c]
        /\ remote_data' = [remote_data EXCEPT ![c] = Remove(@, TriggerKey(flavor))]
        /\ UNCHANGED <<leader, flavor, relations, local_data, notif, last, steps, race>>

\* One relation and two contexts running its hook, serialized or not.
InitRace ==
    /\ InitBase({1})
    /\ \E serialized \in BOOLEAN : race = NoRace(serialized)

NextRace ==
    \/ \E p \in Contexts, c \in relations : RaceLoad(p, c)
    \/ \E p \in Contexts, c \in relations : RaceRead(p, c)
    \/ \E p \in Contexts, c \in relations : RaceSave(p, c)
    \/ \E p \in Contexts, c \in relations : RaceEmit(p, c)
    \/ RacePeerSet
    \/ RacePeerDelete

SpecRace == InitRace /\ [][NextRace]_vars

----------------------------------------------------------------------------
(* Vocabulary of the properties *)

\* The members of the snapshot stored under "data" for relation c, as
\* <<key, value>> pairs; none when nothing is stored yet.
SnapshotPairs(c) ==
    LET s == Get(local_data[c], "data", EmptyObject)
    IN  {s.items[i] : i \in DOMAIN s.items}

SnapshotKeys(c) == {p[1] : p \in SnapshotPairs(c)}

\* The requirer's databag without the reserved key, as pairs.
PeerKeys(c) == DOMAIN remote_data[c] \ {"data"}

PeerPairs(c) == {<<k, remote_data[c][k]>> : k \in PeerKeys(c)}

\* A step in which the hook of relation c ran _diff to its end.
DiffStep(c) ==
    /\ last'.op = "relation_changed"
    /\ last'.relation = c
    /\ notif'[c].outcome \in Completed
    /\ Hook(c)

\* The names of the set_* helpers.
SetOps ==
    {"set_version", "set_credentials", "set_tls", "set_tls_ca",
     "set_endpoints", "set_read_only_endpoints", "set_replset", "set_uris"}

\* A set_* call on relation c by the leader left in c's databag exactly the
\* fields F merged over the previous content, and left the other bags alone.
Merged(c, F) ==
    /\ DOMAIN local_data'[c] = DOMAIN local_data[c] \cup DOMAIN F
    /\ \A k \in DOMAIN F : local_data'[c][k] = F[k]
    /\ \A k \in DOMAIN local_data[c] \ DOMAIN F : local_data'[c][k] = local_data[c][k]
    /\ \A d \in relations \ {c} : local_data'[d] = local_data[d]
    /\ remote_data' = remote_data

----------------------------------------------------------------------------
(* C1 - Idempotence of the diff: when the hook runs _diff for a relation   *)
(* and the very next operation is the hook of the same relation again      *)
(* (same peer view, nothing changed in between), the second run returns    *)
(* added = {}, changed = {} and deleted = {}.                              *)
C1_Idempotence ==
    \A c \in relations :
        (notif[c].rerun /\ notif[c].outcome \in Completed) => notif[c].diff = NoDiff

\* A second run over a non-empty view has happened.
C1_Witness ==
    \E c \in relations :
        /\ notif[c].rerun
        /\ notif[c].outcome \in Completed
        /\ Cardinality(DOMAIN notif[c].view) = 2

(* C2 - Diff classification: with old the stored snapshot and new the peer *)
(* bag without "data", _diff returns added = keys(new) \ keys(old),        *)
(* deleted = keys(old) \ keys(new), changed = the common keys whose values *)
(* differ; a common key with an equal value is in none of the three.       *)
C2_Classification ==
    [][\A c \in relations :
          DiffStep(c) =>
              LET d == notif'[c].diff
                  common == SnapshotKeys(c) \cap PeerKeys(c)
                  equal == {k \in common : <<k, remote_data[c][k]>> \in SnapshotPairs(c)}
              IN  /\ d.added = PeerKeys(c) \ SnapshotKeys(c)
                  /\ d.deleted = SnapshotKeys(c) \ PeerKeys(c)
                  /\ d.changed = common \ equal
                  /\ equal \cap (d.added \cup d.changed \cup d.deleted) = {}]_vars

\* A diff that found one key changed and another deleted.
C2_Witness ==
    \E c \in relations :
        /\ notif[c].outcome \in Completed
        /\ notif[c].diff.changed # {}
        /\ notif[c].diff.deleted # {}

(* C3 - Snapshot invariant: right after every completed diff for relation  *)
(* c, the snapshot stored under "data" in the local databag equals the     *)
(* peer bag's content without "data"; also when the delta is empty and     *)
(* when the peer view is empty (the stored text is then "{}").             *)
C3_Snapshot ==
    [][\A c \in relations :
          DiffStep(c) =>
              /\ "data" \in DOMAIN local_data'[c]
              /\ local_data'[c]["data"].wf
              /\ SnapshotPairs(c)' = PeerPairs(c)'
              /\ Len(local_data'[c]["data"].items) = Cardinality(PeerKeys(c)')
              /\ (PeerKeys(c)' = {} => local_data'[c]["data"] = EmptyObject)]_vars

\* A completed diff with an empty delta over a peer bag that holds only
\* the reserved key: the stored snapshot is "{}".
C3_Witness ==
    \E c \in relations :
        /\ last = Last("relation_changed", c, "ok")
        /\ notif[c].diff = NoDiff
        /\ DOMAIN remote_data[c] = {"data"}
        /\ local_data[c]["data"] = EmptyObject

(* C4 - Non-leader writes are silent no-ops: a call of any set_* helper    *)
(* made while the unit is not leader returns without error and leaves      *)
(* every key of every databag unchanged.                                   *)
C4_NonLeaderNoOp ==
    [][(~leader /\ last'.op \in SetOps /\ Accessor) =>
          /\ last'.outcome = "return"
          /\ local_data' = local_data
          /\ remote_data' = remote_data]_vars

\* A non-leader called set_credentials on a bag the leader had written.
C4_Witness ==
    /\ ~leader
    /\ last.op = "set_credentials"
    /\ last.outcome = "return"
    /\ last.relation \in relations
    /\ "username" \in DOMAIN local_data[last.relation]

(* C5 - Leader writes merge, never replace: a set_* call by the leader     *)
(* sets exactly the keys of its field set to the given values in the       *)
(* relation's local databag and leaves every other key at its previous     *)
(* value.                                                                  *)
C5_LeaderMerge ==
    [][\A c \in relations, v \in Values, w \in Values :
          (leader /\ last'.op \in SetOps /\ last'.relation = c) =>
              /\ set_version(c, v) => Merged(c, "version" :> v)
              /\ set_credentials(c, v, w) =>
                     Merged(c, ("username" :> v) @@ ("password" :> w))
              /\ set_tls(c, v) => Merged(c, "tls" :> v)
              /\ set_tls_ca(c, v) => Merged(c, "tls_ca" :> v)
              /\ set_endpoints(c, v) => Merged(c, "endpoints" :> v)
              /\ set_read_only_endpoints(c, v) =>
                     Merged(c, "read-only-endpoints" :> v)
              /\ set_replset(c, v) => Merged(c, "replset" :> v)
              /\ set_uris(c, v) => Merged(c, "uris" :> v)]_vars

\* set_credentials then set_endpoints: the bag holds all three keys.
C5_Witness ==
    \E c \in relations :
        /\ leader
        /\ last = Last("set_endpoints", c, "return")
        /\ {"username", "password", "endpoints"} \subseteq DOMAIN local_data[c]

(* C6 - Trigger-once: on a leader, when one hook run of a database         *)
(* relation reports "database" as added and, at the next hook run of the   *)
(* relation, the peer has only changed the value of "database", the first  *)
(* run emitted a database-requested event and the second emits none:       *)
(* there "database" is classified as changed, not added.                   *)
C6_TriggerOnce ==
    [][\A c \in relations :
          ( /\ flavor = "database"
            /\ notif[c].outcome \in Completed
            /\ "database" \in notif[c].diff.added
            /\ DiffStep(c)
            /\ PeerKeys(c) = DOMAIN notif[c].view
            /\ remote_data[c]["database"] # notif[c].view["database"]
            /\ \A k \in PeerKeys(c) \ {"database"} : remote_data[c][k] = notif[c].view[k] )
          =>
          ( /\ Len(notif[c].emitted) = 1
            /\ notif[c].emitted[1].kind = "database_requested"
            /\ notif'[c].emitted = << >>
            /\ notif'[c].diff = Diff({}, {"database"}, {}) )]_vars

\* The run after the one that added "database" found it changed and
\* emitted nothing.
C6_Witness ==
    \E c \in relations :
        /\ flavor = "database"
        /\ "database" \in notif[c].prev_added
        /\ notif[c].outcome = "ok"
        /\ notif[c].diff = Diff({}, {"database"}, {})
        /\ notif[c].emitted = << >>

(* C7 - Database request: on a leader with an empty snapshot, when the     *)
(* peer bag holds "database" (with or without "extra-user-roles"), the     *)
(* hook run reports every key the peer wrote as added and emits exactly    *)
(* one database-requested event for that relation, whose database and      *)
(* extra_user_roles accessors return the values the peer wrote.            *)
C7_DatabaseRequest ==
    [][\A c \in relations, unit \in {RemoteUnit, NoneVal} :
          ( /\ leader
            /\ last'.op = "relation_changed"
            /\ SnapshotPairs(c) = {}
            /\ "database" \in DOMAIN remote_data[c]
            /\ DatabaseProvides_on_relation_changed(c, RemoteApp, unit) )
          =>
          ( /\ notif'[c].outcome = "ok"
            /\ notif'[c].diff.added = PeerKeys(c)
            /\ Len(notif'[c].emitted) = 1
            /\ \A ev \in {notif'[c].emitted[i] : i \in DOMAIN notif'[c].emitted} :
                   /\ ev.kind = "database_requested"
                   /\ ev.relation = c
                   /\ database(ev)' = remote_data[c]["database"]
                   /\ extra_user_roles(ev)' =
                          IF "extra-user-roles" \in DOMAIN remote_data[c]
                          THEN remote_data[c]["extra-user-roles"]
                          ELSE NoneVal )]_vars

\* Scenario A: both keys added over an empty snapshot, one event.
C7_Witness ==
    \E c \in relations :
        /\ flavor = "database"
        /\ last = Last("relation_changed", c, "ok")
        /\ notif[c].diff = Diff({"database", "extra-user-roles"}, {}, {})
        /\ Len(notif[c].emitted) = 1
        /\ database(notif[c].emitted[1]) \in Values
        /\ extra_user_roles(notif[c].emitted[1]) \in Values

(* C8 - Only first appearance triggers: a hook run whose delta does not    *)
(* have the flavour's trigger key in added (the key is unchanged, changed, *)
(* deleted or absent, or only other keys moved) emits no event.            *)
C8_OnlyAdded ==
    [][\A c \in relations :
          ( /\ last'.op = "relation_changed"
            /\ last'.relation = c
            /\ Hook(c)
            /\ TriggerKey(flavor) \notin notif'[c].diff.added )
              => notif'[c].emitted = << >>]_vars

\* The trigger key changed while "extra-user-roles" was added: no event.
C8_Witness ==
    \E c \in relations :
        /\ notif[c].outcome = "ok"
        /\ notif[c].diff = Diff({"extra-user-roles"}, {TriggerKey(flavor)}, {})
        /\ notif[c].emitted = << >>

(* C9 - Per-flavour trigger table: on a leader, a hook run of the Kafka    *)
(* provider whose delta has "topic" in added emits one topic-created       *)
(* event, a hook run of the ZooKeeper provider whose delta has "chroot" in *)
(* added emits one znode-created event, and the hook ends without failure. *)
C9_FlavorEvents ==
    \A c \in relations :
        ( /\ flavor \in {"kafka", "zookeeper"}
          /\ notif[c].outcome \in Completed
          /\ TriggerKey(flavor) \in notif[c].diff.added )
        =>
        ( /\ notif[c].outcome = "ok"
          /\ Len(notif[c].emitted) = 1
          /\ notif[c].emitted[1].kind = EventKind(flavor) )

(* C10 - Partition completeness, as stated: added, changed and the keys    *)
(* common to the old snapshot and the new view account for every key of    *)
(* the old snapshot and of the new view.                                   *)
C10_Original ==
    [][\A c \in relations :
          DiffStep(c) =>
              SnapshotKeys(c) \cup PeerKeys(c) \subseteq
                  notif'[c].diff.added \cup notif'[c].diff.changed
                      \cup (SnapshotKeys(c) \cap PeerKeys(c))]_vars

(* C10 - Partition completeness, amended: added, changed, deleted and the  *)
(* keys common to the old snapshot and the new view account for every key  *)
(* of the old snapshot and of the new view.                                *)
C10_Partition ==
    [][\A c \in relations :
          DiffStep(c) =>
              SnapshotKeys(c) \cup PeerKeys(c) \subseteq
                  notif'[c].diff.added \cup notif'[c].diff.changed
                      \cup notif'[c].diff.deleted
                      \cup (SnapshotKeys(c) \cap PeerKeys(c))]_vars

\* A diff that found both keys of the old snapshot deleted.
C10_Witness ==
    \E c \in relations :
        /\ notif[c].outcome \in Completed
        /\ Cardinality(notif[c].diff.deleted) = 2

(* C11 - Disjoint delta: the sets added, changed and deleted that _diff    *)
(* returns are pairwise disjoint, whatever the old snapshot and the new    *)
(* view.                                                                   *)
C11_Disjoint ==
    \A c \in relations :
        notif[c].outcome \in Completed =>
            /\ notif[c].diff.added \cap notif[c].diff.changed = {}
            /\ notif[c].diff.added \cap notif[c].diff.deleted = {}
            /\ notif[c].diff.changed \cap notif[c].diff.deleted = {}

\* A diff with one key added and another deleted.
C11_Witness ==
    \E c \in relations :
        /\ notif[c].outcome \in Completed
        /\ notif[c].diff.added # {}
        /\ notif[c].diff.deleted # {}
        /\ notif[c].diff.changed = {}

(* C12 - Malformed snapshot recovery: when the text stored under "data"    *)
(* is not parseable, the hook run of the leader treats the old snapshot as *)
(* empty (every key of the peer view is added), does not fail on it, and   *)
(* overwrites the snapshot with the current peer view.                     *)
C12_MalformedRecovery ==
    [][\A c \in relations, unit \in {RemoteUnit, NoneVal} :
          ( /\ leader
            /\ last'.op = "relation_changed"
            /\ last'.relation = c
            /\ "data" \in DOMAIN local_data[c]
            /\ ~local_data[c]["data"].wf
            /\ HookFrom(c, RemoteApp, unit) )
          =>
          ( /\ notif'[c].outcome # "JSONDecodeError"
            /\ notif'[c].diff.added = PeerKeys(c)
            /\ local_data'[c]["data"].wf
            /\ SnapshotPairs(c)' = PeerPairs(c)' )]_vars

(* C13 - Unknown connection, as stated: every call of a set_* helper with  *)
(* an id that names no relation ends in a failure, whether or not the unit *)
(* is leader, and changes no databag.                                      *)
C13_Original ==
    [][( /\ last'.op \in SetOps
         /\ last'.relation \notin relations
         /\ Accessor )
       =>
       ( /\ last'.outcome = "ModelError"
         /\ local_data' = local_data
         /\ remote_data' = remote_data )]_vars

(* C13 - Unknown connection, amended: a call of a set_* helper with an id  *)
(* that names no relation fails on the leader and returns silently on a    *)
(* non-leader; in both cases no databag changes.                           *)
C13_UnknownRelation ==
    [][( /\ last'.op \in SetOps
         /\ last'.relation \notin relations
         /\ Accessor )
       =>
       ( /\ last'.outcome = (IF leader THEN "ModelError" ELSE "return")
         /\ local_data' = local_data
         /\ remote_data' = remote_data )]_vars

C13_Witness ==
    /\ last.op \in SetOps
    /\ last.relation \notin relations
    /\ ~leader
    /\ last.outcome = "return"
    /\ \E c \in relations : local_data[c] # EmptyBag

(* C14 - Missing peer identity, as stated: a hook run of the leader whose  *)
(* event names no unit and/or no application, with the trigger key in the  *)
(* peer databag and not in the snapshot, fails and delivers no event.      *)
C14_Original ==
    [][\A c \in relations, app \in {RemoteApp, NoneVal}, unit \in {RemoteUnit, NoneVal} :
          ( /\ last'.op = "relation_changed"
            /\ last'.relation = c
            /\ leader
            /\ app = NoneVal \/ unit = NoneVal
            /\ TriggerKey(flavor) \in PeerKeys(c) \ SnapshotKeys(c)
            /\ HookFrom(c, app, unit) )
          =>
          ( /\ notif'[c].outcome # "ok"
            /\ notif'[c].emitted = <<>> )]_vars

(* C14 - Missing peer identity, amended: a hook run of the leader whose    *)
(* event names no application fails with KeyError before anything is       *)
(* classified, delivers no event and leaves the databags as they were; a   *)
(* run of DatabaseProvides whose event names the application and no unit,  *)
(* with "database" in the peer databag and not in the snapshot, delivers   *)
(* one database_requested event carrying that application and no unit.     *)
C14_MissingIdentity ==
    [][\A c \in relations, app \in {RemoteApp, NoneVal}, unit \in {RemoteUnit, NoneVal} :
          ( /\ last'.op = "relation_changed"
            /\ last'.relation = c
            /\ leader
            /\ HookFrom(c, app, unit) )
          =>
          ( /\ app = NoneVal =>
                  /\ notif'[c].outcome = "KeyError"
                  /\ notif'[c].emitted = <<>>
                  /\ local_data' = local_data
                  /\ remote_data' = remote_data
            /\ ( /\ app # NoneVal
                 /\ unit = NoneVal
                 /\ flavor = "database"
                 /\ "database" \in PeerKeys(c) \ SnapshotKeys(c) ) =>
                  /\ notif'[c].outcome = "ok"
                  /\ notif'[c].emitted =
                         <<Event("database_requested", c, app, NoneVal)>> )]_vars

C14_Witness ==
    \E c \in relations :
        /\ notif[c].outcome = "ok"
        /\ Len(notif[c].emitted) = 1
        /\ notif[c].emitted[1].app = RemoteApp
        /\ notif[c].emitted[1].unit = NoneVal

(* C15 - fetch_relation_data returns one entry per relation, keyed by the  *)
(* relation id, holding exactly the requirer's databag without the key     *)
(* "data"; the call changes no databag, no snapshot and no hook record.    *)
C15_Fetch ==
    [][( /\ last'.op = "fetch_relation_data"
         /\ fetch_relation_data )
       =>
       ( /\ DOMAIN last'.value = relations
         /\ \A c \in relations :
               /\ "data" \notin DOMAIN last'.value[c]
               /\ {<<k, last'.value[c][k]>> : k \in DOMAIN last'.value[c]} = PeerPairs(c)
         /\ local_data' = local_data
         /\ remote_data' = remote_data
         /\ notif' = notif )]_vars

C15_Witness ==
    /\ last.op = "fetch_relation_data"
    /\ DOMAIN last.value = relations
    /\ \E c \in relations :
          /\ "data" \in DOMAIN remote_data[c]
          /\ last.value[c] # EmptyBag

(* C16 - Events read through: at every moment the accessors database,      *)
(* topic, chroot and extra_user_roles of an event of relation c, raised    *)
(* earlier or not, give the value the requirer's databag holds now under   *)
(* the key, or none when the key is gone; never the value at emission.     *)
C16_ReadThrough ==
    \A c \in relations, f \in Flavors,
       app \in {RemoteApp, NoneVal}, unit \in {RemoteUnit, NoneVal} :
        LET ev == Event(EventKind(f), c, app, unit)
            now(key) == IF key \in DOMAIN remote_data[c]
                        THEN remote_data[c][key]
                        ELSE NoneVal
        IN  /\ database(ev) = now("database")
            /\ topic(ev) = now("topic")
            /\ chroot(ev) = now("chroot")
            /\ extra_user_roles(ev) = now("extra-user-roles")

C16_Witness ==
    \E c \in relations :
        /\ Len(notif[c].emitted) = 1
        /\ notif[c].emitted[1].kind = "database_requested"
        /\ "database" \in DOMAIN notif[c].view
        /\ database(notif[c].emitted[1]) # notif[c].view["database"]
        /\ extra_user_roles(notif[c].emitted[1]) # NoneVal

(* C17 - Notification gate: a relation-changed hook run while the unit is  *)
(* not leader computes no diff, raises no event and leaves the snapshot,   *)
(* the local databags and the requirer's databags unchanged.               *)
C17_Gate ==
    [][\A c \in relations :
          ( /\ last'.op = "relation_changed"
            /\ last'.relation = c
            /\ ~leader
            /\ Hook(c) )
          =>
          ( /\ notif'[c].outcome = "dropped"
            /\ notif'[c].diff = NoDiff
            /\ notif'[c].emitted = <<>>
            /\ local_data' = local_data
            /\ remote_data' = remote_data )]_vars

C17_Witness ==
    \E c \in relations :
        /\ ~leader
        /\ last.op = "relation_changed"
        /\ last.relation = c
        /\ last.outcome = "dropped"
        /\ TriggerKey(flavor) \in PeerKeys(c)
        /\ "data" \notin DOMAIN local_data[c]

\* The keys each set_* helper writes.
Fields(op) ==
    CASE op = "set_version" -> {"version"}
      [] op = "set_credentials" -> {"username", "password"}
      [] op = "set_tls" -> {"tls"}
      [] op = "set_tls_ca" -> {"tls_ca"}
      [] op = "set_endpoints" -> {"endpoints"}
      [] op = "set_read_only_endpoints" -> {"read-only-endpoints"}
      [] op = "set_replset" -> {"replset"}
      [] op = "set_uris" -> {"uris"}
      [] OTHER -> {}

(* C18 - Leadership is evaluated per call: whatever came before, leader    *)
(* changes included, a set_* call writes its keys exactly when the unit is *)
(* leader at that call and leaves the databags alone otherwise, and a hook *)
(* run is diffed exactly when the unit is leader at that run.              *)
C18_PerCall ==
    [][\A c \in relations :
          /\ ( /\ last'.op \in SetOps
               /\ last'.relation = c
               /\ Accessor )
             =>
             IF leader
             THEN Fields(last'.op) \subseteq DOMAIN local_data'[c]
             ELSE local_data' = local_data
          /\ ( /\ last'.op = "relation_changed"
               /\ last'.relation = c
               /\ Hook(c) )
             =>
             ( /\ leader <=> notif'[c].outcome # "dropped"
               /\ ~leader => local_data' = local_data )]_vars

\* A hook run was dropped on a non-leader, the unit became leader, and the
\* next set_* call wrote its keys.
C18_Witness ==
    \E c \in relations :
        /\ leader
        /\ last.op \in SetOps
        /\ last.relation = c
        /\ Fields(last.op) \subseteq DOMAIN local_data[c]
        /\ notif[c].outcome = "dropped"

\* What the local databag of relation c holds under "data": nothing, or
\* the stored text.
SnapshotText(c) ==
    IF "data" \in DOMAIN local_data[c] THEN <<local_data[c]["data"]>> ELSE <<>>

(* C19 - Snapshot has a single writer: no set_* call, by leader or         *)
(* non-leader, and no fetch_relation_data call changes the value under     *)
(* "data"; that value changes only in a hook run that computes the diff of *)
(* the relation, and every such run stores the peer view it read, once.    *)
C19_SingleWriter ==
    [][\A c \in relations :
          /\ ( /\ last'.op \in SetOps \cup {"fetch_relation_data"}
               /\ Accessor \/ fetch_relation_data )
             => SnapshotText(c)' = SnapshotText(c)
          /\ SnapshotText(c)' # SnapshotText(c) => DiffStep(c)
          /\ DiffStep(c) =>
               /\ SnapshotText(c)' = <<dumps(new_data(c))>>
               /\ \A d \in relations \ {c} : SnapshotText(d)' = SnapshotText(d)]_vars

\* The hook stored a snapshot and the leader then called a set_* helper on
\* the same relation: the snapshot is still there next to the new keys.
C19_Witness ==
    \E c \in relations :
        /\ leader
        /\ last.op \in SetOps
        /\ last.relation = c
        /\ Fields(last.op) \subseteq DOMAIN local_data[c]
        /\ SnapshotPairs(c) # {}

(* C20 - Re-trigger after removal: on the leader, when the trigger key of  *)
(* the flavour is in the peer view and not in the snapshot, after a hook   *)
(* run that processed its deletion or after the snapshot was reset from    *)
(* outside, the next hook run raises the typed event of the flavour again. *)
C20_Retrigger ==
    [][\A c \in relations, unit \in {RemoteUnit, NoneVal} :
          ( /\ last'.op = "relation_changed"
            /\ last'.relation = c
            /\ leader
            /\ \/ TriggerKey(flavor) \in notif[c].diff.deleted
               \/ last.op = "data_write" /\ last.relation = c
            /\ Get(local_data[c], "data", EmptyObject).wf
            /\ TriggerKey(flavor) \in PeerKeys(c) \ SnapshotKeys(c)
            /\ HookFrom(c, RemoteApp, unit) )
          =>
          ( /\ notif'[c].outcome = "ok"
            /\ notif'[c].emitted =
                   <<Event(EventKind(flavor), c, RemoteApp, unit)>> )]_vars

(* C21 - Connection independence: a hook run or a set_* call for relation  *)
(* c leaves the snapshot, the local databag, the requirer's databag and    *)
(* the hook record of every other relation d as they were, so the Diff a   *)
(* run for d would return is the same before and after the step.           *)
C21_Independence ==
    [][\A c \in relations, d \in relations :
          ( /\ d # c
            /\ last'.relation = c
            /\ last'.op \in SetOps \cup {"relation_changed"}
            /\ Accessor \/ Hook(c) )
          =>
          ( /\ local_data'[d] = local_data[d]
            /\ remote_data'[d] = remote_data[d]
            /\ notif'[d] = notif[d]
            /\ SnapshotText(d)' = SnapshotText(d)
            /\ _diff(d)' = _diff(d) )]_vars

\* The hook ran for one relation, which has a snapshot, and then for the
\* other, whose requirer wrote nothing.
C21_Witness ==
    \E c \in relations, d \in relations :
        /\ d # c
        /\ last.op = "relation_changed"
        /\ last.relation = c
        /\ notif[c].outcome = "ok"
        /\ SnapshotPairs(c) = {}
        /\ notif[d].outcome \in Completed
        /\ SnapshotPairs(d) # {}

(* C22 - Unserialized diffs race: when the runs of the hook of a relation  *)
(* are serialized, the events raised never outnumber the appearances of    *)
(* the trigger key; more events than appearances are raised only when the  *)
(* runs are not serialized and one run read the snapshot while another had *)
(* read it and not yet stored its own.                                     *)
C22_Race ==
    /\ race.serialized => race.events <= race.appeared
    /\ race.serialized => ~race.overlap
    /\ race.events > race.appeared => ~race.serialized /\ race.overlap

\* One appearance of the trigger key, two events.
C22_Witness ==
    /\ ~race.serialized
    /\ race.overlap
    /\ race.appeared = 1
    /\ race.events = 2
    /\ \A p \in Contexts : race.pc[p] = "idle"

(* C23 - Snapshot is committed before events are raised: a hook run that   *)
(* classifies the trigger key as added has stored the peer view, trigger   *)
(* key included, whether the emit went through or failed; and when the     *)
(* emit failed, processing the same peer view again right after gives an   *)
(* empty delta and raises no event.                                        *)
C23_CommitFirst ==
    [][\A c \in relations :
          DiffStep(c) =>
             /\ TriggerKey(flavor) \in notif'[c].diff.added =>
                   /\ TriggerKey(flavor) \in SnapshotKeys(c)'
                   /\ SnapshotPairs(c)' = PeerPairs(c)
             /\ ( /\ last.op = "relation_changed"
                  /\ last.relation = c
                  /\ last.outcome = "AttributeError" )
                =>
                ( /\ notif'[c].outcome = "ok"
                  /\ notif'[c].diff = NoDiff
                  /\ notif'[c].emitted = <<>> )]_vars

\* The emit failed in one run; the next run of the same relation found the
\* trigger key in the snapshot and reported nothing.
C23_Witness ==
    \E c \in relations :
        /\ last.op = "relation_changed"
        /\ last.relation = c
        /\ notif[c].rerun
        /\ TriggerKey(flavor) \in notif[c].prev_added
        /\ flavor # "database"
        /\ notif[c].outcome = "ok"
        /\ notif[c].diff = NoDiff
        /\ notif[c].emitted = <<>>
        /\ TriggerKey(flavor) \in SnapshotKeys(c)

(* C24 - Reserved key is invisible to the diff: "data" is never in added,  *)
(* changed or deleted, never in the view a run read and never a key of a   *)
(* stored snapshot, also when the databag read holds a key "data" and when *)
(* it is the local databag that holds the snapshot itself.                 *)
C24_ReservedInvisible ==
    \A c \in relations :
        /\ notif[c].outcome \in Completed =>
              /\ "data" \notin notif[c].diff.added
              /\ "data" \notin notif[c].diff.changed
              /\ "data" \notin notif[c].diff.deleted
              /\ "data" \notin DOMAIN notif[c].view
        /\ "data" \in DOMAIN local_data[c] =>
              /\ local_data[c]["data"].wf
              /\ "data" \notin SnapshotKeys(c)

\* _diff ran twice on the local databag: the second run read a databag
\* that held the first run's snapshot, and stored a snapshot of the other
\* keys only.
C24_Witness ==
    \E c \in relations :
        /\ last = Last("_diff", c, "ok")
        /\ notif[c].diff.changed # {}
        /\ "data" \in DOMAIN local_data[c]
        /\ SnapshotKeys(c) = DOMAIN local_data[c] \ {"data"}
        /\ "data" \in DOMAIN remote_data[c]

(* C25 - No request is lost across a non-leader period: when the last hook *)
(* run of a relation was dropped on a non-leader, the trigger key is in    *)
(* the peer databag and not in the snapshot, and the unit is leader now,   *)
(* the next hook run of the relation classifies the trigger key as added   *)
(* and raises the typed event of the flavour.                              *)
C25_NotLost ==
    [][\A c \in relations, unit \in {RemoteUnit, NoneVal} :
          ( /\ last'.op = "relation_changed"
            /\ last'.relation = c
            /\ leader
            /\ notif[c].outcome = "dropped"
            /\ TriggerKey(flavor) \in PeerKeys(c) \ SnapshotKeys(c)
            /\ HookFrom(c, RemoteApp, unit) )
          =>
          ( /\ TriggerKey(flavor) \in notif'[c].diff.added
            /\ notif'[c].outcome = "ok"
            /\ notif'[c].emitted =
                   <<Event(EventKind(flavor), c, RemoteApp, unit)>> )]_vars

====
